---- MODULE Spec2Model ----
(***************************************************************************)
(* Walking-accessibility core of 15MinGreenCity-Besiktas-IBB.              *)
(*                                                                         *)
(* The two scripts spatial_analysis/network_analysis.py and                *)
(* spatial_analysis/accessibility_analysis.py build a walking network with *)
(* ox.graph_from_place(network_type='walk'), map points to graph nodes     *)
(* with ox.distance.nearest_nodes and compute service areas with           *)
(* nx.ego_graph(G, node, radius, distance='length').  The library calls    *)
(* are modelled by what they compute: ego_graph is Dijkstra's search with  *)
(* a cutoff followed by the node-induced subgraph.                         *)
(***************************************************************************)
EXTENDS Integers, Sequences, FiniteSets, TLC

VARIABLES G, pc, source, radius, search, subgraph, error,
          points_of_interest, pois_nodes, service_areas, done, calls,
          paths, result, stmt, processed, printed

vars == <<G, pc, source, radius, search, subgraph, error,
          points_of_interest, pois_nodes, service_areas, done, calls,
          paths, result, stmt, processed, printed>>

(***************************************************************************)
(* Bounds of the model.                                                    *)
(***************************************************************************)
MaxNodes == 3
MaxEdges == 2
MaxLen == 1
MaxBudget == 2
MaxPois == 2

(***************************************************************************)
(* Distance budgets of the two call sites, in metres.                      *)
(***************************************************************************)
walking_speed == 5
max_distance_m == walking_speed * 250
\* the radius of the batch derived from the walking speed
service_radius_derived == walking_speed * 250

service_radius == 1200

LengthStep == max_distance_m \div 2
\* edge lengths: a zero-length segment and the longest segment
Lengths == {0, MaxLen * LengthStep}
\* radii tried: a negative one, zero, one step and the largest
Budgets == {0 - 1, 0, LengthStep, MaxBudget * LengthStep}

Nodes == 1..MaxNodes
\* float("nan"), a value outside every coordinate range
NaN == 0 - 1

(***************************************************************************)
(* Street segments delivered by OpenStreetMap: two end nodes (possibly the *)
(* same node) and a nonnegative length.                                    *)
(***************************************************************************)
Way == {w \in [u : Nodes, v : Nodes, length : Lengths] : w.u <= w.v}
WaySeqs(k) == UNION {[1..j -> Way] : j \in 0..k}

\* planar position (x, y) of a node: a fixed layout of the node ids
node_xy(n) == <<(2 * (n - 1)) % 3, ((n - 1) \div 2) % 2>>

\* MultiDiGraph.add_edge: the key is the number of edges already stored
\* between the same ordered pair of nodes
add_edge(E, u, v, length) ==
  Append(E, [u |-> u, v |-> v,
             key |-> Cardinality({i \in 1..Len(E) : E[i].u = u /\ E[i].v = v}),
             length |-> length])

\* osmnx adds every way of a bidirectional network type in both directions
RECURSIVE add_paths(_, _)
add_paths(ways, bidirectional) ==
  IF ways = <<>> THEN <<>>
  ELSE LET w == ways[Len(ways)]
           E == add_paths(SubSeq(ways, 1, Len(ways) - 1), bidirectional)
           F == add_edge(E, w.u, w.v, w.length)
       IN IF bidirectional THEN add_edge(F, w.v, w.u, w.length) ELSE F

\* the same graph built as for a one-way network type
graph_from_place_oneway(ways, network_type) ==
  [nodes |-> Nodes, edges |-> add_paths(ways, FALSE)]

\* ox.graph_from_place(place, network_type='walk')
graph_from_place(ways, network_type) ==
  [nodes |-> Nodes, edges |-> add_paths(ways, network_type = "walk")]

(***************************************************************************)
(* networkx: adjacency, edge weight of a multigraph, Dijkstra with cutoff. *)
(***************************************************************************)
\* G._adj[v]: the successors of v in order of first insertion
RECURSIVE succ_order(_, _, _)
succ_order(E, v, acc) ==
  IF E = <<>> THEN acc
  ELSE LET e == Head(E)
           isNew == e.u = v /\ \A i \in 1..Len(acc) : acc[i] # e.v
       IN succ_order(Tail(E), v, IF isNew THEN Append(acc, e.v) ELSE acc)

G_succ(g, v) == succ_order(g.edges, v, <<>>)

SetMin(S) == CHOOSE x \in S : \A y \in S : x <= y

\* the 'length' of the first edge stored between v and u
weight_first(g, v, u) ==
  g.edges[SetMin({j \in 1..Len(g.edges) : g.edges[j].u = v /\ g.edges[j].v = u})].length

\* weight(v, u, e) of a multigraph: the minimum 'length' over parallel edges
weight(g, v, u) ==
  SetMin({g.edges[i].length : i \in {j \in 1..Len(g.edges) :
                                       g.edges[j].u = v /\ g.edges[j].v = u}})

\* state of _dijkstra_multisource before the loop
dijkstra_init(n) ==
  [dist |-> <<>>, seen |-> (n :> 0), fringe |-> {<<0, 0, n>>}, c |-> 1,
   order |-> <<>>, raised |-> FALSE]

\* the cutoff test with the comparison inverted
over_cutoff_inverted(vu_dist, cutoff) == vu_dist < cutoff

\* the cutoff test excluding a distance equal to the cutoff
over_cutoff_inclusive(vu_dist, cutoff) == vu_dist >= cutoff

\* "if vu_dist > cutoff: continue"
over_cutoff(vu_dist, cutoff) == vu_dist > cutoff

\* body of "for u, e in G_succ[v].items()"
relax(st, g, v, u, cutoff) ==
  LET vu_dist == st.dist[v] + weight(g, v, u)
  IN IF over_cutoff(vu_dist, cutoff) THEN st
     ELSE IF u \in DOMAIN st.dist
       THEN IF vu_dist < st.dist[u] THEN [st EXCEPT !.raised = TRUE] ELSE st
     ELSE IF u \notin DOMAIN st.seen \/ vu_dist < st.seen[u]
       THEN [st EXCEPT !.seen = (u :> vu_dist) @@ st.seen,
                       !.fringe = @ \cup {<<vu_dist, st.c, u>>},
                       !.c = @ + 1]
     ELSE st

RECURSIVE relax_all(_, _, _, _, _)
relax_all(st, g, v, succs, cutoff) ==
  IF succs = <<>> \/ st.raised THEN st
  ELSE relax_all(relax(st, g, v, Head(succs), cutoff), g, v, Tail(succs), cutoff)

\* the greatest (distance, counter, node) tuple taken from the queue
heap_max(fringe) ==
  CHOOSE t \in fringe :
    \A s \in fringe : t[1] > s[1] \/ (t[1] = s[1] /\ t[2] >= s[2])

\* heappop: the least (distance, counter, node) tuple
heap_min(fringe) ==
  CHOOSE t \in fringe :
    \A s \in fringe : t[1] < s[1] \/ (t[1] = s[1] /\ t[2] <= s[2])

\* an iteration that reads the least entry and leaves it in the queue
dijkstra_step_peek(st, g, cutoff) ==
  LET t == heap_min(st.fringe)
      d == t[1]
      v == t[3]
  IN IF v \in DOMAIN st.dist THEN st
     ELSE relax_all([st EXCEPT !.dist = (v :> d) @@ st.dist,
                               !.order = Append(@, v)],
                    g, v, G_succ(g, v), cutoff)

\* one iteration of "while fringe"
dijkstra_step(st, g, cutoff) ==
  LET t == heap_min(st.fringe)
      d == t[1]
      v == t[3]
      popped == [st EXCEPT !.fringe = @ \ {t}]
  IN IF v \in DOMAIN st.dist THEN popped
     ELSE relax_all([popped EXCEPT !.dist = (v :> d) @@ st.dist,
                                   !.order = Append(@, v)],
                    g, v, G_succ(g, v), cutoff)

RECURSIVE dijkstra_run(_, _, _)
dijkstra_run(st, g, cutoff) ==
  IF st.fringe = {} \/ st.raised THEN st
  ELSE dijkstra_run(dijkstra_step(st, g, cutoff), g, cutoff)

\* nx.single_source_dijkstra(G, n, cutoff=radius, weight='length')
single_source_dijkstra(g, n, cutoff) == dijkstra_run(dijkstra_init(n), g, cutoff)

\* a subgraph keeping every edge that touches one of the nodes
touching_subgraph(g, S) ==
  [nodes |-> g.nodes \cap S,
   edges |-> SelectSeq(g.edges, LAMBDA e : e.u \in S \/ e.v \in S)]

\* G.subgraph(nodes).copy(): the nodes and every edge between two of them
induced_subgraph(g, S) ==
  [nodes |-> g.nodes \cap S,
   edges |-> SelectSeq(g.edges, LAMBDA e : e.u \in S /\ e.v \in S)]

\* the whole graph returned in place of the induced subgraph
ego_graph_whole(g, n, r) == g

\* the graph cut down to the service area in place
graph_truncated_by_ego(g, n, r) ==
  induced_subgraph(g, DOMAIN single_source_dijkstra(g, n, r).dist)

\* the graph passed to nx.ego_graph after the call: the subgraph is a
\* copy (G.subgraph(sp).copy()), G itself is left as it was
graph_after_ego(g, n, r) == g

\* nx.ego_graph(G, n, radius=r, distance='length')
ego_graph(g, n, r) ==
  induced_subgraph(g, DOMAIN single_source_dijkstra(g, n, r).dist)

NoGraph == [nodes |-> {}, edges |-> <<>>]
\* nx.MultiDiGraph(): a graph without nodes
EmptyGraph == [nodes |-> {}, edges |-> <<>>]
\* no dictionary returned yet
NoResult == [returned |-> FALSE]
NoSearch == [dist |-> <<>>, seen |-> <<>>, fringe |-> {}, c |-> 0,
             order |-> <<>>, raised |-> FALSE]

(***************************************************************************)
(* Specification Spec: one service-area query on a walking network, the    *)
(* call nx.ego_graph(G, node, radius=..., distance='length') of both       *)
(* scripts with the start node and the radius as inputs.                   *)
(***************************************************************************)
Init ==
  /\ \E ways \in WaySeqs(MaxEdges) : G = graph_from_place(ways, "walk")
  /\ pc = "ready"
  /\ source = 0
  /\ radius = 0
  /\ search = NoSearch
  /\ subgraph = NoGraph
  /\ error = "none"
  /\ points_of_interest = <<>>
  /\ pois_nodes = <<>>
  /\ service_areas = <<>>
  /\ done = 0
  /\ calls = <<>>
  /\ stmt = 0
  /\ processed = {}
  /\ printed = <<>>
  /\ paths = <<>>
  /\ result = NoResult

Reachability(n, b) ==
  /\ pc = "ready"
  /\ source' = n
  /\ radius' = b
  /\ search' = single_source_dijkstra(G, n, b)
  /\ subgraph' = IF search'.raised THEN NoGraph ELSE ego_graph(G, n, b)
  /\ error' = IF search'.raised THEN "ValueError" ELSE "none"
  /\ pc' = "done"
  /\ calls' = Append(calls, <<n, b>>)
  /\ G' = graph_after_ego(G, n, b)
  /\ UNCHANGED <<stmt, processed, printed>>
  /\ UNCHANGED <<points_of_interest, pois_nodes, service_areas, done, paths, result>>

Next == \E n \in Nodes, b \in Budgets : Reachability(n, b)

Spec == Init /\ [][Next]_vars

(***************************************************************************)
(* Specification SpecBatch: network_analysis.calculate_accessibility(G,    *)
(* points_of_interest).  A point of interest is a (latitude, longitude)    *)
(* pair; a pair holding NaN is a point the caller could not locate.        *)
(***************************************************************************)
\* the points asked for lie on the street through node 1, at the
\* longitudes (x) of the nodes
Lats == {node_xy(1)[2]}
Lons == {node_xy(n)[1] : n \in Nodes}
POI == (Lats \X Lons) \cup {<<NaN, NaN>>}
PoiSeqs == UNION {[1..j -> POI] : j \in 0..MaxPois}

\* the arguments (X, Y) = (longitude, latitude) passed as poi[0], poi[1]
poi_xy_swapped(poi) == <<poi[1], poi[2]>>

\* the arguments (X, Y) = (poi[1], poi[0]) of the lookup: a POI is a
\* (latitude, longitude) pair, X is the longitude and Y the latitude
poi_xy(poi) == <<poi[2], poi[1]>>

SqDist(n, X, Y) ==
  (node_xy(n)[1] - X) * (node_xy(n)[1] - X) + (node_xy(n)[2] - Y) * (node_xy(n)[2] - Y)

\* ox.distance.nearest_nodes rejects null coordinates (and has no answer on
\* a graph without nodes)
nearest_nodes_raises(g, X, Y) == X = NaN \/ Y = NaN \/ g.nodes = {}

\* ox.distance.nearest_nodes(G, X, Y): the nodes at the least distance from
\* (X, Y); which of several such nodes the index returns is its own choice
nearest_nodes(g, X, Y) ==
  {n \in g.nodes : \A m \in g.nodes : SqDist(n, X, Y) <= SqDist(m, X, Y)}

\* the graph handed in by the caller: a walking network, or a graph
\* without nodes
InitBatch ==
  /\ \/ \E ways \in WaySeqs(MaxEdges - 1) : G = graph_from_place(ways, "walk")
     \/ G = EmptyGraph
  /\ points_of_interest \in PoiSeqs
  /\ pc = "batch"
  /\ source = 0
  /\ radius = 0
  /\ search = NoSearch
  /\ subgraph = NoGraph
  /\ error = "none"
  /\ pois_nodes = <<>>
  /\ service_areas = <<>>
  /\ done = 0
  /\ calls = <<>>
  /\ stmt = 0
  /\ processed = {}
  /\ printed = <<>>
  /\ paths = <<>>
  /\ result = NoResult

\* first loop, one iteration: node = nearest_nodes(G, poi[1], poi[0])
NearestNode ==
  /\ pc = "batch"
  /\ Len(pois_nodes) < Len(points_of_interest)
  /\ LET poi == points_of_interest[Len(pois_nodes) + 1]
     IN /\ ~nearest_nodes_raises(G, poi_xy(poi)[1], poi_xy(poi)[2])
        /\ \E node \in nearest_nodes(G, poi_xy(poi)[1], poi_xy(poi)[2]) :
             pois_nodes' = Append(pois_nodes, node)
  /\ UNCHANGED <<stmt, processed, printed>>
  /\ UNCHANGED <<G, pc, source, radius, search, subgraph, error,
                 points_of_interest, service_areas, done, calls, paths, result>>

\* a failing lookup swallowed: a placeholder is stored and the loop goes on
NearestNodeSkips ==
  /\ pc = "batch"
  /\ Len(pois_nodes) < Len(points_of_interest)
  /\ LET poi == points_of_interest[Len(pois_nodes) + 1]
     IN nearest_nodes_raises(G, poi_xy(poi)[1], poi_xy(poi)[2])
  /\ pois_nodes' = Append(pois_nodes, 0)
  /\ UNCHANGED <<stmt, processed, printed>>
  /\ UNCHANGED <<G, pc, source, radius, search, subgraph, error,
                 points_of_interest, service_areas, done, calls, paths, result>>

\* first loop, an iteration whose lookup raises: nothing catches it, the
\* call ends without a return value
NearestNodeRaises ==
  /\ pc = "batch"
  /\ Len(pois_nodes) < Len(points_of_interest)
  /\ LET poi == points_of_interest[Len(pois_nodes) + 1]
     IN nearest_nodes_raises(G, poi_xy(poi)[1], poi_xy(poi)[2])
  /\ pc' = "raised"
  /\ error' = "ValueError"
  /\ UNCHANGED <<stmt, processed, printed>>
  /\ UNCHANGED <<G, source, radius, search, subgraph, points_of_interest,
                 pois_nodes, service_areas, done, calls, paths, result>>

\* the subgraph stored under the position of the POI in the list
store_area_by_position(areas, node, sub) ==
  ((Cardinality(DOMAIN areas) + MaxNodes + 1) :> sub) @@ areas

\* every entry of service_areas overwritten by the latest subgraph
store_area_shared(areas, node, sub) ==
  [k \in DOMAIN areas \cup {node} |-> sub]

\* the entry of service_areas written for a node
store_area(areas, node, sub) == (node :> sub) @@ areas

\* second loop, one iteration: service_areas[node] = ego_graph(G, node, 1200)
ServiceArea ==
  /\ pc = "batch"
  /\ Len(pois_nodes) = Len(points_of_interest)
  /\ done < Len(pois_nodes)
  /\ LET node == pois_nodes[done + 1]
         st == single_source_dijkstra(G, node, service_radius)
     IN /\ source' = node
        /\ radius' = service_radius
        /\ search' = st
        /\ calls' = Append(calls, <<node, service_radius>>)
        /\ G' = graph_after_ego(G, node, service_radius)
        /\ IF st.raised
             THEN /\ pc' = "raised"
                  /\ error' = "ValueError"
                  /\ UNCHANGED <<subgraph, service_areas, done>>
             ELSE /\ subgraph' = ego_graph(G, node, service_radius)
                  /\ service_areas' = store_area(service_areas, node, subgraph')
                  /\ done' = done + 1
                  /\ UNCHANGED <<pc, error>>
  /\ UNCHANGED <<stmt, processed, printed>>
  /\ UNCHANGED <<points_of_interest, pois_nodes, paths, result>>

\* return service_areas
ReturnAreas ==
  /\ pc = "batch"
  /\ Len(pois_nodes) = Len(points_of_interest)
  /\ done = Len(pois_nodes)
  /\ pc' = "returned"
  /\ UNCHANGED <<stmt, processed, printed>>
  /\ UNCHANGED <<G, source, radius, search, subgraph, error, points_of_interest,
                 pois_nodes, service_areas, done, calls, paths, result>>

NextBatch == NearestNode \/ NearestNodeRaises \/ ServiceArea \/ ReturnAreas

SpecBatch == InitBatch /\ [][NextBatch]_vars

(***************************************************************************)
(* The analysis run of network_analysis.py: the walking network is built   *)
(* from the polylines (ways) delivered for the place, then the service     *)
(* areas of the POIs are computed on it.                                   *)
(***************************************************************************)
MaxVertices == MaxNodes + 1

Range(f) == {f[i] : i \in DOMAIN f}

\* a way: the sequence of its vertices, no vertex twice; a degenerate way
\* has one vertex or none
Polyline ==
  {p \in UNION {[1..k -> Nodes] : k \in 0..MaxNodes} :
     \A i, j \in DOMAIN p : i # j => p[i] # p[j]}

RECURSIVE SumLen(_)
SumLen(ps) == IF ps = <<>> THEN 0 ELSE Len(Head(ps)) + SumLen(Tail(ps))

PolylineSeqs ==
  {ps \in UNION {[1..k -> Polyline] : k \in 0..MaxEdges} : SumLen(ps) <= MaxVertices}

Abs(x) == IF x < 0 THEN 0 - x ELSE x

\* add_edge_lengths: the distance between the two end nodes of a segment,
\* in whole steps
seg_length(u, v) ==
  LET dx == Abs(node_xy(u)[1] - node_xy(v)[1])
      dy == Abs(node_xy(u)[2] - node_xy(v)[2])
  IN LengthStep * (IF dx > dy THEN dx ELSE dy)

\* zip(nodes[:-1], nodes[1:]): the consecutive vertex pairs of a way
path_edges(p) == [i \in 1..(Len(p) - 1) |-> <<p[i], p[i + 1]>>]

reversed_edges(pairs) == [i \in DOMAIN pairs |-> <<pairs[i][2], pairs[i][1]>>]

\* G.add_edges_from(edges)
RECURSIVE add_edges_from(_, _)
add_edges_from(E, pairs) ==
  IF pairs = <<>> THEN E
  ELSE add_edges_from(add_edge(E, Head(pairs)[1], Head(pairs)[2],
                               seg_length(Head(pairs)[1], Head(pairs)[2])),
                      Tail(pairs))

\* _add_paths of a walking network: the edges of each way, then the same
\* edges reversed
RECURSIVE add_way_paths(_, _)
add_way_paths(E, ps) ==
  IF ps = <<>> THEN E
  ELSE add_way_paths(
         add_edges_from(add_edges_from(E, path_edges(Head(ps))),
                        reversed_edges(path_edges(Head(ps)))),
         Tail(ps))

\* _create_graph: a node per OSM node id met in the ways, the ways' edges
create_graph(ps) ==
  [nodes |-> UNION {Range(ps[i]) : i \in DOMAIN ps},
   edges |-> add_way_paths(<<>>, ps)]

successors(g, n) == {g.edges[i].v : i \in {j \in 1..Len(g.edges) : g.edges[j].u = n}}
predecessors(g, n) == {g.edges[i].u : i \in {j \in 1..Len(g.edges) : g.edges[j].v = n}}
degree(g, n) ==
  Cardinality({j \in 1..Len(g.edges) : g.edges[j].u = n})
    + Cardinality({j \in 1..Len(g.edges) : g.edges[j].v = n})

\* _is_endpoint: a node that simplification keeps
is_endpoint(g, n) ==
  \/ n \in successors(g, n)
  \/ successors(g, n) = {}
  \/ predecessors(g, n) = {}
  \/ ~(Cardinality(successors(g, n) \cup predecessors(g, n)) = 2
         /\ degree(g, n) \in {2, 4})

endpoints(g) == {n \in g.nodes : is_endpoint(g, n)}

\* _build_path: from an endpoint through interstitial nodes to the next
\* endpoint
RECURSIVE build_path(_, _, _)
build_path(g, ends, path) ==
  LET last == path[Len(path)]
      nxt == SelectSeq(G_succ(g, last), LAMBDA m : m \notin Range(path))
  IN IF last \in ends THEN path
     ELSE IF Len(nxt) = 1 THEN build_path(g, ends, Append(path, nxt[1]))
     ELSE IF Len(nxt) = 0 /\ path[1] \in successors(g, last)
       THEN Append(path, path[1])
     ELSE path

RECURSIVE SortedSeq(_)
SortedSeq(S) ==
  IF S = {} THEN <<>> ELSE <<SetMin(S)>> \o SortedSeq(S \ {SetMin(S)})

RECURSIVE paths_from(_, _, _, _)
paths_from(g, ends, e, succs) ==
  IF succs = <<>> THEN <<>>
  ELSE (IF Head(succs) \in ends THEN <<>>
        ELSE <<build_path(g, ends, <<e, Head(succs)>>)>>)
       \o paths_from(g, ends, e, Tail(succs))

\* _get_paths_to_simplify: for every endpoint, a path through each
\* successor that is not an endpoint
RECURSIVE get_paths_to_simplify(_, _, _)
get_paths_to_simplify(g, ends, todo) ==
  IF todo = <<>> THEN <<>>
  ELSE paths_from(g, ends, Head(todo), G_succ(g, Head(todo)))
       \o get_paths_to_simplify(g, ends, Tail(todo))

\* G.edges[u, v, 0]["length"]
edge0_length(g, u, v) ==
  LET i == CHOOSE j \in 1..Len(g.edges) :
             g.edges[j].u = u /\ g.edges[j].v = v /\ g.edges[j].key = 0
  IN g.edges[i].length

RECURSIVE sum_lengths(_, _)
sum_lengths(g, path) ==
  IF Len(path) < 2 THEN 0
  ELSE edge0_length(g, path[1], path[2]) + sum_lengths(g, Tail(path))

\* the merged edge keeping the length of its first segment only
path_length_first(g, path) == edge0_length(g, path[1], path[2])

\* the length of a merged edge: the sum over the segments of the path
path_length(g, path) == sum_lengths(g, path)

RECURSIVE add_merged(_, _, _)
add_merged(g, E, ps) ==
  IF ps = <<>> THEN E
  ELSE add_merged(g, add_edge(E, Head(ps)[1], Head(ps)[Len(Head(ps))],
                              path_length(g, Head(ps))),
                  Tail(ps))

\* ox.simplify_graph (simplify=True is the default of graph_from_place):
\* each path between two endpoints becomes one edge, its interstitial
\* nodes are removed
simplify_graph(g) ==
  LET ends == endpoints(g)
      ps == get_paths_to_simplify(g, ends, SortedSeq(ends))
      gone == UNION {{ps[i][k] : k \in 2..(Len(ps[i]) - 1)} : i \in DOMAIN ps}
  IN [nodes |-> g.nodes \ gone,
      edges |-> SelectSeq(add_merged(g, g.edges, ps),
                          LAMBDA e : e.u \notin gone /\ e.v \notin gone)]

RECURSIVE weakly_connected(_, _)
weakly_connected(g, S) ==
  LET T == S \cup UNION {successors(g, n) \cup predecessors(g, n) : n \in S}
  IN IF T = S THEN S ELSE weakly_connected(g, T)

\* largest_component (retain_all=False is the default): the graphs induced
\* by a weakly connected component of the greatest size
largest_component(g) ==
  LET comps == {weakly_connected(g, {n}) : n \in g.nodes}
  IN {induced_subgraph(g, c) :
        c \in {d \in comps : \A o \in comps : Cardinality(o) <= Cardinality(d)}}

\* ox.graph_from_place on the ways delivered: the graphs it can return
graph_from_ways(ps) == largest_component(simplify_graph(create_graph(ps)))

\* pois = [(41.0425, 29.005), (41.045, 29.01)]: two (latitude, longitude)
\* pairs, placed on the layout
pois == <<<<0, 0>>, <<1, 1>>>>

InitMain ==
  /\ paths \in PolylineSeqs
  /\ G = NoGraph
  /\ pc = "main"
  /\ source = 0
  /\ radius = 0
  /\ search = NoSearch
  /\ subgraph = NoGraph
  /\ error = "none"
  /\ points_of_interest = <<>>
  /\ pois_nodes = <<>>
  /\ service_areas = <<>>
  /\ done = 0
  /\ calls = <<>>
  /\ stmt = 0
  /\ processed = {}
  /\ printed = <<>>
  /\ result = NoResult

\* the POIs handed over before any graph exists
CreateNetworkLazy ==
  /\ pc = "main"
  /\ pc' = "batch"
  /\ points_of_interest' = pois
  /\ UNCHANGED <<stmt, processed, printed>>
  /\ UNCHANGED <<G, source, radius, search, subgraph, error, pois_nodes,
                 service_areas, done, calls, paths, result>>

\* G = create_walkability_network(); pois = [...]
CreateNetwork ==
  /\ pc = "main"
  /\ \E g \in graph_from_ways(paths) : G' = g
  /\ pc' = "batch"
  /\ points_of_interest' = pois
  /\ UNCHANGED <<stmt, processed, printed>>
  /\ UNCHANGED <<source, radius, search, subgraph, error, pois_nodes,
                 service_areas, done, calls, paths, result>>

\* create_walkability_network() on ways without a single segment: the
\* download is rejected as holding no usable data
CreateNetworkRaises ==
  /\ pc = "main"
  /\ create_graph(paths).edges = <<>>
  /\ pc' = "raised"
  /\ error' = "InsufficientResponseError"
  /\ UNCHANGED <<stmt, processed, printed>>
  /\ UNCHANGED <<G, source, radius, search, subgraph, points_of_interest,
                 pois_nodes, service_areas, done, calls, paths, result>>

\* the graph of a finished construction has a node and the two POIs have
\* coordinates, so no lookup of this run raises
NextMain ==
  \/ CreateNetwork
  \/ CreateNetworkRaises
  \/ NearestNode
  \/ ServiceArea
  \/ ReturnAreas

SpecMain == InitMain /\ [][NextMain]_vars

(***************************************************************************)
(* accessibility_analysis.py: calculate_accessibility() builds the walking *)
(* network, projects it, looks up the node nearest to the centre point,    *)
(* takes the ego graph of 15 minutes of walking and returns three figures. *)
(***************************************************************************)
\* Python's None in a numeric field
PyNone == 0 - 1

\* center_point = Point(29.007149, 41.041224): (x, y) in degrees, placed on
\* the layout
center_point == <<1, 1>>

\* false easting / northing of the projected coordinate system, in metres
utm_offset == 2 * max_distance_m

\* ox.project_graph: the position of a node in metres
projected_xy(n) ==
  <<utm_offset + LengthStep * node_xy(n)[1], utm_offset + LengthStep * node_xy(n)[2]>>

SqDistProjected(n, X, Y) ==
  (projected_xy(n)[1] - X) * (projected_xy(n)[1] - X)
    + (projected_xy(n)[2] - Y) * (projected_xy(n)[2] - Y)

\* ox.distance.nearest_nodes(G_proj, X, Y): the nodes whose projected
\* position is nearest to (X, Y)
nearest_nodes_projected(g, X, Y) ==
  {n \in g.nodes :
     \A m \in g.nodes : SqDistProjected(n, X, Y) <= SqDistProjected(m, X, Y)}

\* the dictionary returned by calculate_accessibility()
accessibility_result(sub) ==
  [area_covered_km2 |-> PyNone,
   nodes_in_range |-> Cardinality(sub.nodes),
   edges_in_range |-> Len(sub.edges)]

InitAccess ==
  /\ paths \in PolylineSeqs
  /\ G = NoGraph
  /\ pc = "access"
  /\ source = 0
  /\ radius = 0
  /\ search = NoSearch
  /\ subgraph = NoGraph
  /\ error = "none"
  /\ points_of_interest = <<>>
  /\ pois_nodes = <<>>
  /\ service_areas = <<>>
  /\ done = 0
  /\ calls = <<>>
  /\ stmt = 0
  /\ processed = {}
  /\ printed = <<>>
  /\ result = NoResult

\* graph = ox.graph_from_place(place, network_type='walk')
AccessGraph ==
  /\ pc = "access"
  /\ \E g \in graph_from_ways(paths) : G' = g
  /\ pc' = "graph"
  /\ UNCHANGED <<stmt, processed, printed>>
  /\ UNCHANGED <<source, radius, search, subgraph, error, points_of_interest,
                 pois_nodes, service_areas, done, calls, paths, result>>

\* graph_from_place on ways without a single segment
AccessGraphRaises ==
  /\ pc = "access"
  /\ create_graph(paths).edges = <<>>
  /\ pc' = "raised"
  /\ error' = "InsufficientResponseError"
  /\ UNCHANGED <<stmt, processed, printed>>
  /\ UNCHANGED <<G, source, radius, search, subgraph, points_of_interest,
                 pois_nodes, service_areas, done, calls, paths, result>>

\* G_proj = ox.project_graph(graph); center_node = nearest_nodes(G_proj,
\* center_point.x, center_point.y); subgraph = nx.ego_graph(G_proj,
\* center_node, radius=max_distance*1000, distance='length')
Isochrone ==
  /\ pc = "graph"
  /\ \E center_node \in nearest_nodes_projected(G, center_point[1], center_point[2]) :
       /\ source' = center_node
       /\ search' = single_source_dijkstra(G, center_node, max_distance_m)
       /\ subgraph' = ego_graph(G, center_node, max_distance_m)
       /\ calls' = Append(calls, <<center_node, max_distance_m>>)
       /\ G' = graph_after_ego(G, center_node, max_distance_m)
  /\ radius' = max_distance_m
  /\ pc' = "isochrone"
  /\ UNCHANGED <<stmt, processed, printed>>
  /\ UNCHANGED <<error, points_of_interest, pois_nodes, service_areas, done,
                 paths, result>>

\* return {'area_covered_km2': None, 'nodes_in_range': ..., 'edges_in_range': ...}
AccessReturn ==
  /\ pc = "isochrone"
  /\ result' = accessibility_result(subgraph)
  /\ pc' = "returned"
  /\ UNCHANGED <<stmt, processed, printed>>
  /\ UNCHANGED <<G, source, radius, search, subgraph, error, points_of_interest,
                 pois_nodes, service_areas, done, calls, paths>>

NextAccess == AccessGraph \/ AccessGraphRaises \/ Isochrone \/ AccessReturn

SpecAccess == InitAccess /\ [][NextAccess]_vars

(***************************************************************************)
(* The two scripts side by side: a run is either the analysis of           *)
(* network_analysis.py or the one of accessibility_analysis.py.            *)
(***************************************************************************)
InitBoth == InitMain \/ InitAccess

NextBoth == NextMain \/ NextAccess

SpecBoth == InitBoth /\ [][NextBoth]_vars

(***************************************************************************)
(* One service-area computation followed through the loop of the search:   *)
(* nx.ego_graph(G, n, radius, distance='length') runs Dijkstra with the    *)
(* radius as cutoff, one pop of the priority queue at a time, and then     *)
(* takes the subgraph of the nodes it finalised.                           *)
(***************************************************************************)
\* the ways of a round trip 1 - 2 - ... - k - 1 with the given lengths: a
\* self-loop for k = 1, two parallel segments for k = 2, a cycle beyond
ring(k, lens) ==
  [i \in 1..k |->
     LET a == i
         b == (i % k) + 1
     IN [u |-> IF a <= b THEN a ELSE b, v |-> IF a <= b THEN b ELSE a,
         length |-> lens[i]]]

Rings == UNION {{ring(k, lens) : lens \in [1..k -> Lengths]} : k \in 1..MaxNodes}

InitSearch ==
  /\ \E ways \in WaySeqs(MaxEdges) \cup Rings : G = graph_from_place(ways, "walk")
  /\ source = 0
  /\ radius = 0
  /\ search = NoSearch
  /\ pc = "ready"
  /\ subgraph = NoGraph
  /\ error = "none"
  /\ points_of_interest = <<>>
  /\ pois_nodes = <<>>
  /\ service_areas = <<>>
  /\ done = 0
  /\ calls = <<>>
  /\ stmt = 0
  /\ processed = {}
  /\ printed = <<>>
  /\ paths = <<>>
  /\ result = NoResult

\* the call nx.ego_graph(G, n, radius=b, distance='length'): the queue
\* holds the source at distance 0
SearchCall(n, b) ==
  /\ pc = "ready"
  /\ source' = n
  /\ radius' = b
  /\ search' = dijkstra_init(n)
  /\ calls' = Append(calls, <<n, b>>)
  /\ pc' = "searching"
  /\ UNCHANGED <<stmt, processed, printed>>
  /\ UNCHANGED <<G, subgraph, error, points_of_interest, pois_nodes,
                 service_areas, done, paths, result>>

\* an iteration that takes any entry of least distance from the queue
DijkstraStepAnyTie ==
  /\ pc = "searching"
  /\ search.fringe # {}
  /\ ~search.raised
  /\ \E t \in {e \in search.fringe : \A o \in search.fringe : e[1] <= o[1]} :
       LET popped == [search EXCEPT !.fringe = @ \ {t}]
       IN search' =
            IF t[3] \in DOMAIN search.dist THEN popped
            ELSE relax_all([popped EXCEPT !.dist = (t[3] :> t[1]) @@ search.dist,
                                          !.order = Append(@, t[3])],
                           G, t[3], G_succ(G, t[3]), radius)
  /\ UNCHANGED <<stmt, processed, printed>>
  /\ UNCHANGED <<G, pc, source, radius, subgraph, error, points_of_interest,
                 pois_nodes, service_areas, done, calls, paths, result>>

\* one iteration of "while fringe": pop the least entry, finalise its node
\* unless it is finalised already, and push its successors within the cutoff
DijkstraStep ==
  /\ pc = "searching"
  /\ search.fringe # {}
  /\ ~search.raised
  /\ search' = dijkstra_step(search, G, radius)
  /\ UNCHANGED <<stmt, processed, printed>>
  /\ UNCHANGED <<G, pc, source, radius, subgraph, error, points_of_interest,
                 pois_nodes, service_areas, done, calls, paths, result>>

\* the queue is empty: H = G.subgraph(sp).copy() is returned
SearchReturn ==
  /\ pc = "searching"
  /\ search.fringe = {} \/ search.raised
  /\ subgraph' = IF search.raised THEN NoGraph
                 ELSE induced_subgraph(G, DOMAIN search.dist)
  /\ error' = IF search.raised THEN "ValueError" ELSE "none"
  /\ pc' = "done"
  /\ G' = graph_after_ego(G, source, radius)
  /\ UNCHANGED <<stmt, processed, printed>>
  /\ UNCHANGED <<source, radius, search, points_of_interest, pois_nodes,
                 service_areas, done, calls, paths, result>>

NextSearch ==
  \/ \E n \in Nodes, b \in Budgets : SearchCall(n, b)
  \/ DijkstraStep
  \/ SearchReturn

SpecSearch == InitSearch /\ [][NextSearch]_vars

\* the searches on the round trips
InitRings ==
  /\ InitSearch
  /\ \E ways \in Rings : G = graph_from_place(ways, "walk")

\* the search is a loop inside one synchronous call: it takes its next
\* step as long as it has one
SpecSearchFair == InitRings /\ [][NextSearch]_vars /\ WF_vars(NextSearch)

(***************************************************************************)
(* The data-processing script: main of besiktas_data_processing.py calls   *)
(* setup_directories and then four process_* functions.  The body of each  *)
(* process_* function is one try block; stmt is the statement of the body  *)
(* about to run (0 while main has not yet made the call), processed the    *)
(* files written under data/processed by this run, printed the lines        *)
(* printed so far.  Any statement of a body may raise.                     *)
(***************************************************************************)
steps ==
  <<"setup_directories", "process_geojson_files", "process_ibb_xlsx_files",
    "process_tuik_xls_files", "process_osm_data">>

\* the statements of the try block of a step: the line of the source and
\* the file the statement writes ("" for a statement that writes none)
step_body(s) ==
  CASE s = "process_geojson_files" ->
         << [line |-> 14, writes |-> ""],
            [line |-> 15, writes |-> ""],
            [line |-> 19, writes |-> "besiktas_bike_paths.geojson"],
            [line |-> 22, writes |-> ""],
            [line |-> 23, writes |-> ""],
            [line |-> 24, writes |-> "besiktas_micromobility.geojson"] >>
    [] s = "process_ibb_xlsx_files" ->
         << [line |-> 32, writes |-> ""],
            [line |-> 33, writes |-> "besiktas_green_area_info.xlsx"],
            [line |-> 36, writes |-> ""],
            [line |-> 37, writes |-> ""],
            [line |-> 38, writes |-> "besiktas_green_area_coordinates.xlsx"] >>
    [] s = "process_tuik_xls_files" ->
         << [line |-> 46, writes |-> ""],
            [line |-> 52, writes |-> ""],
            [line |-> 56, writes |-> ""],
            [line |-> 57, writes |-> "besiktas_population_by_district.xlsx"],
            [line |-> 62, writes |-> ""],
            [line |-> 73, writes |-> ""],
            [line |-> 80, writes |-> ""],
            [line |-> 95, writes |-> ""],
            [line |-> 118, writes |-> "besiktas_population_age_gender.xlsx"] >>
    [] s = "process_osm_data" ->
         << [line |-> 140, writes |-> ""],
            [line |-> 141, writes |-> "besiktas_osm_parks_paths.geojson"] >>
    [] OTHER -> << >>

\* the line main prints before it calls a step
header(s) ==
  CASE s = "setup_directories" -> "Setting up directories..."
    [] s = "process_geojson_files" -> "Processing GeoJSON files..."
    [] s = "process_ibb_xlsx_files" -> "Processing IBB XLSX files..."
    [] s = "process_tuik_xls_files" -> "Processing TUIK XLS files..."
    [] OTHER -> "Processing OSM data..."

\* the line the except clause of a step prints (without the exception text)
error_message(s) ==
  CASE s = "process_geojson_files" -> "Error processing GeoJSON files"
    [] s = "process_ibb_xlsx_files" -> "Error processing IBB XLSX files"
    [] s = "process_tuik_xls_files" -> "Error processing TUIK XLS files"
    [] OTHER -> "Error processing OSM data"

completion_message ==
  "All data processing completed. Check the 'processed' folder for results."

\* the statement of process_tuik_xls_files that looks for the district
\* column, and the first statement after the if/else that depends on it
district_col_stmt == 2
after_district_stmt == 5

step_index(s) == CHOOSE i \in DOMAIN steps : steps[i] = s

\* where main goes on after a step: the next call, or its last print
after_step(s) ==
  IF step_index(s) < Len(steps) THEN steps[step_index(s) + 1] ELSE "main_end"

InProcessStep == pc \in Range(steps) \ {"setup_directories"}

InitPipeline ==
  /\ pc = "setup_directories"
  /\ stmt = 0
  /\ processed = {}
  /\ printed = <<>>
  /\ error = "none"
  /\ calls = <<>>
  /\ G = NoGraph
  /\ source = 0
  /\ radius = 0
  /\ search = NoSearch
  /\ subgraph = NoGraph
  /\ points_of_interest = <<>>
  /\ pois_nodes = <<>>
  /\ service_areas = <<>>
  /\ done = 0
  /\ paths = <<>>
  /\ result = NoResult

\* print, then setup_directories(): os.makedirs(..., exist_ok=True) succeeds
SetupDirectories ==
  /\ pc = "setup_directories"
  /\ printed' = Append(printed, header(pc))
  /\ calls' = Append(calls, pc)
  /\ pc' = after_step(pc)
  /\ UNCHANGED <<stmt, processed, error>>
  /\ UNCHANGED <<G, source, radius, search, subgraph, points_of_interest,
                 pois_nodes, service_areas, done, paths, result>>

\* os.makedirs raises (the path is a file, or may not be created): the call
\* is in no try block, the exception leaves main
SetupDirectoriesRaises ==
  /\ pc = "setup_directories"
  /\ printed' = Append(printed, header(pc))
  /\ calls' = Append(calls, pc)
  /\ error' = "OSError"
  /\ pc' = "crashed"
  /\ UNCHANGED <<stmt, processed>>
  /\ UNCHANGED <<G, source, radius, search, subgraph, points_of_interest,
                 pois_nodes, service_areas, done, paths, result>>

\* main prints the header of a process_* step and calls it
EnterStep ==
  /\ InProcessStep
  /\ stmt = 0
  /\ printed' = Append(printed, header(pc))
  /\ calls' = Append(calls, pc)
  /\ stmt' = 1
  /\ UNCHANGED <<pc, processed, error>>
  /\ UNCHANGED <<G, source, radius, search, subgraph, points_of_interest,
                 pois_nodes, service_areas, done, paths, result>>

\* one statement of the try block runs to its end
Statement ==
  /\ InProcessStep
  /\ stmt \in DOMAIN step_body(pc)
  /\ processed' = IF step_body(pc)[stmt].writes = "" THEN processed
                  ELSE processed \cup {step_body(pc)[stmt].writes}
  /\ stmt' = stmt + 1
  /\ UNCHANGED <<pc, printed, error, calls>>
  /\ UNCHANGED <<G, source, radius, search, subgraph, points_of_interest,
                 pois_nodes, service_areas, done, paths, result>>

\* the exception of a statement reaches main instead of the except clause
StatementRaisesUncaught ==
  /\ InProcessStep
  /\ stmt \in DOMAIN step_body(pc)
  /\ error' = "Exception"
  /\ pc' = "crashed"
  /\ UNCHANGED <<stmt, processed, printed, calls>>
  /\ UNCHANGED <<G, source, radius, search, subgraph, points_of_interest,
                 pois_nodes, service_areas, done, paths, result>>

\* one statement of the try block raises: the except clause of the step
\* prints and the function returns to main.  A statement that was writing
\* a file may leave the file behind, incomplete.
StatementRaises ==
  /\ InProcessStep
  /\ stmt \in DOMAIN step_body(pc)
  /\ \/ processed' = processed
     \/ /\ step_body(pc)[stmt].writes # ""
        /\ processed' = processed \cup {step_body(pc)[stmt].writes}
  /\ printed' = Append(printed, error_message(pc))
  /\ error' = "Exception"
  /\ pc' = after_step(pc)
  /\ stmt' = 0
  /\ UNCHANGED calls
  /\ UNCHANGED <<G, source, radius, search, subgraph, points_of_interest,
                 pois_nodes, service_areas, done, paths, result>>

\* district_col is None: the else branch prints, nothing is filtered or
\* written for the districts
NoDistrictColumn ==
  /\ pc = "process_tuik_xls_files"
  /\ stmt = district_col_stmt
  /\ printed' = Append(printed, "Could not find district column in population file")
  /\ stmt' = after_district_stmt
  /\ UNCHANGED <<pc, processed, error, calls>>
  /\ UNCHANGED <<G, source, radius, search, subgraph, points_of_interest,
                 pois_nodes, service_areas, done, paths, result>>

\* the try block ran to its end: the function returns to main
StepReturns ==
  /\ InProcessStep
  /\ stmt = Len(step_body(pc)) + 1
  /\ pc' = after_step(pc)
  /\ stmt' = 0
  /\ UNCHANGED <<processed, printed, error, calls>>
  /\ UNCHANGED <<G, source, radius, search, subgraph, points_of_interest,
                 pois_nodes, service_areas, done, paths, result>>

\* the last print of main
Complete ==
  /\ pc = "main_end"
  /\ printed' = Append(printed, completion_message)
  /\ pc' = "completed"
  /\ UNCHANGED <<stmt, processed, error, calls>>
  /\ UNCHANGED <<G, source, radius, search, subgraph, points_of_interest,
                 pois_nodes, service_areas, done, paths, result>>

NextPipeline ==
  \/ SetupDirectories
  \/ SetupDirectoriesRaises
  \/ EnterStep
  \/ Statement
  \/ StatementRaises
  \/ NoDistrictColumn
  \/ StepReturns
  \/ Complete

\* the script is one thread of straight-line code: it takes its next step
\* as long as it has one
SpecPipeline == InitPipeline /\ [][NextPipeline]_vars /\ WF_vars(NextPipeline)

(***************************************************************************)
(* Reference definitions for the properties: shortest-path distance by     *)
(* enumeration of the walks from the source, and connected components.             *)
(***************************************************************************)
EdgeIdx(g) == 1..Len(g.edges)

\* the pairs <<node, length>> of the walks from s that use at most k edges
RECURSIVE Walks(_, _, _)
Walks(g, s, k) ==
  IF k = 0 THEN {<<s, 0>>}
  ELSE LET W == Walks(g, s, k - 1)
       IN W \cup {<<g.edges[x[2]].v, x[1][2] + g.edges[x[2]].length>> :
                    x \in {y \in W \X EdgeIdx(g) : g.edges[y[2]].u = y[1][1]}}

\* a shortest path visits no node twice, so it has fewer edges than nodes
Paths(g, s) == Walks(g, s, Cardinality(g.nodes) - 1)

ShortestPathLength(g, s, n) == SetMin({p[2] : p \in {q \in Paths(g, s) : q[1] = n}})

WithinBudget(g, s, b) == {p[1] : p \in {q \in Paths(g, s) : q[2] <= b}}

RECURSIVE Closure(_, _)
Closure(g, S) ==
  LET T == S \cup {g.edges[i].v : i \in {j \in EdgeIdx(g) : g.edges[j].u \in S}}
             \cup {g.edges[i].u : i \in {j \in EdgeIdx(g) : g.edges[j].v \in S}}
  IN IF T = S THEN S ELSE Closure(g, T)

Component(g, n) == Closure(g, {n})

Answered == pc = "done" /\ error = "none"

\* edges of g with exactly one end node in S, as (u, v, key)
EdgeId(e) == <<e.u, e.v, e.key>>
OneEndIn(g, S) ==
  {EdgeId(g.edges[i]) : i \in {j \in EdgeIdx(g) :
                                 (g.edges[j].u \in S) # (g.edges[j].v \in S)}}
BothEndsIn(g, S) ==
  {EdgeId(g.edges[i]) : i \in {j \in EdgeIdx(g) :
                                 g.edges[j].u \in S /\ g.edges[j].v \in S}}
EdgesOf(g) == {EdgeId(g.edges[i]) : i \in EdgeIdx(g)}

(***************************************************************************)
(* C1: for every budget b >= 0 the nodes of the service area of s are      *)
(* exactly the nodes whose shortest-path distance from s (sum of edge      *)
(* lengths) is <= b, and the distance the search holds for each of them is *)
(* that shortest-path distance and is <= b.                                *)
(***************************************************************************)
Thm_C1 ==
  (pc = "done" /\ radius >= 0) =>
     /\ error = "none"
     /\ subgraph.nodes = WithinBudget(G, source, radius)
     /\ DOMAIN search.dist = subgraph.nodes
     /\ \A n \in subgraph.nodes :
          /\ search.dist[n] = ShortestPathLength(G, source, n)
          /\ search.dist[n] <= radius

\* a neighbour reached at exactly the budget and a connected node beyond it
Wit_C1 ==
  /\ Answered /\ radius > 0
  /\ \E n \in subgraph.nodes : n # source /\ search.dist[n] = radius
  /\ \E m \in Component(G, source) : m \notin subgraph.nodes

(***************************************************************************)
(* C2 as stated: with budget 0 the service area of every node n is {n}     *)
(* with no edge, zero-length edges and self-loops allowed.                 *)
(***************************************************************************)
Cex_C2 ==
  (pc = "done" /\ radius = 0) =>
     subgraph.nodes = {source} /\ subgraph.edges = <<>>

\* n has neither a self-loop nor a zero-length edge to another node
PlainAtZero(g, n) ==
  \A i \in EdgeIdx(g) :
     g.edges[i].u = n => (g.edges[i].v # n /\ g.edges[i].length > 0)

(***************************************************************************)
(* C2 amended: with budget 0 the service area of a node n that has no      *)
(* self-loop and no zero-length edge to another node is {n} with no edge.  *)
(***************************************************************************)
Thm_C2 ==
  (pc = "done" /\ radius = 0 /\ PlainAtZero(G, source)) =>
     subgraph.nodes = {source} /\ subgraph.edges = <<>>

\* budget 0 from a node with a neighbour, in a graph that has a zero-length
\* edge elsewhere
Wit_C2 ==
  /\ Answered /\ radius = 0 /\ PlainAtZero(G, source)
  /\ \E i \in EdgeIdx(G) : G.edges[i].u = source
  /\ \E i \in EdgeIdx(G) : G.edges[i].length = 0
  /\ subgraph.nodes = {source}

(***************************************************************************)
(* C3 as stated: every edge with exactly one end node in the reached set   *)
(* appears in the result as a boundary edge (with the partial length       *)
(* min(budget - distance, length)).                                        *)
(***************************************************************************)
Cex_C3 ==
  (pc = "done" /\ radius >= 0) =>
     OneEndIn(G, subgraph.nodes) \subseteq EdgesOf(subgraph)

(***************************************************************************)
(* C4 as stated: the edges of the result are exactly the edges with both   *)
(* end nodes reached plus the edges with exactly one end node reached.     *)
(***************************************************************************)
Cex_C4 ==
  (pc = "done" /\ radius >= 0) =>
     EdgesOf(subgraph) = BothEndsIn(G, subgraph.nodes) \cup OneEndIn(G, subgraph.nodes)

(***************************************************************************)
(* C5: the reached set grows with the budget: for budgets 0 <= b1 < b2 the *)
(* nodes reached within b1 are among the nodes reached within b2.          *)
(***************************************************************************)
Thm_C5 ==
  (pc = "done" /\ radius >= 0) =>
     \A b2 \in {b \in Budgets : b > radius} :
        subgraph.nodes \subseteq ego_graph(G, source, b2).nodes

\* a query with two nodes reached and a larger budget that reaches more
Wit_C5 ==
  /\ Answered /\ radius >= 0
  /\ Cardinality(subgraph.nodes) = 2
  /\ \E b2 \in Budgets :
       b2 > radius /\ ego_graph(G, source, b2).nodes # subgraph.nodes

(***************************************************************************)
(* C6: reachability is symmetric: m is reached from n within b exactly     *)
(* when n is reached from m within b.                                      *)
(***************************************************************************)
Thm_C6 ==
  (pc = "done" /\ radius >= 0) =>
     \A m \in G.nodes \ {source} :
        (m \in subgraph.nodes) <=> (source \in ego_graph(G, m, radius).nodes)

\* one other node reached and one connected node not reached
Wit_C6 ==
  /\ Answered /\ radius > 0
  /\ \E m \in subgraph.nodes : m # source
  /\ \E m \in Component(G, source) : m \notin subgraph.nodes

(***************************************************************************)
(* C7: a node of another connected component is never reached and never    *)
(* seen by the search, whatever the budget; a source none of whose         *)
(* neighbours lies within the budget gives the source alone, without error.*)
(***************************************************************************)
Thm_C7 ==
  pc = "done" =>
     /\ \A n \in G.nodes \ Component(G, source) :
          /\ n \notin subgraph.nodes
          /\ n \notin DOMAIN search.seen
          /\ n \notin DOMAIN search.dist
     /\ (\A u \in G.nodes \ {source} :
           \A i \in EdgeIdx(G) :
              (G.edges[i].u = source /\ G.edges[i].v = u) => G.edges[i].length > radius)
        => (error = "none" /\ subgraph.nodes = {source})

\* the largest budget, a second node reached, and another component that
\* has an edge of its own
Wit_C7 ==
  /\ Answered /\ radius = MaxBudget * LengthStep
  /\ Cardinality(subgraph.nodes) >= 2
  /\ \E i \in EdgeIdx(G) : G.edges[i].u \notin Component(G, source)

(***************************************************************************)
(* C8 as stated: a query with a negative budget fails with                 *)
(* InvalidBudgetError and produces no result.                              *)
(***************************************************************************)
Cex_C8 ==
  (pc = "done" /\ radius < 0) =>
     error = "InvalidBudgetError" /\ subgraph = NoGraph

Located(poi) == poi[1] # NaN /\ poi[2] # NaN
PoiIdx == 1..Len(points_of_interest)

(***************************************************************************)
(* C9 as stated: when the computation for one POI of a batch fails, the    *)
(* batch does not abort: every other POI has its result in the output and  *)
(* the failure is recorded next to the results.                            *)
(***************************************************************************)
Cex_C9 ==
  (pc \in {"returned", "raised"}
     /\ (\E i \in PoiIdx : ~Located(points_of_interest[i]))
     /\ (\E i \in PoiIdx : Located(points_of_interest[i]))) =>
     /\ pc = "returned"
     /\ \A i \in PoiIdx :
          Located(points_of_interest[i]) =>
            \E node \in nearest_nodes(G, points_of_interest[i][2],
                                      points_of_interest[i][1]) :
               node \in DOMAIN service_areas

(***************************************************************************)
(* C10 as stated: the engine is invoked exactly once per POI, from that    *)
(* POI's nearest node, and the output holds as many per-POI results as     *)
(* there are POIs.                                                         *)
(***************************************************************************)
Cex_C10 ==
  pc = "returned" =>
     /\ Len(calls) = Len(points_of_interest)
     /\ \A i \in PoiIdx :
          calls[i][1] \in nearest_nodes(G, points_of_interest[i][2],
                                        points_of_interest[i][1])
     /\ Cardinality(DOMAIN service_areas) = Len(points_of_interest)

\* the nodes of g at the least planar distance from the point (lon, lat)
Nearest(g, lon, lat) ==
  {n \in g.nodes : \A m \in g.nodes : SqDist(n, lon, lat) <= SqDist(m, lon, lat)}

\* the POIs whose lookup has been made
LookedUp == 1..Len(pois_nodes)

Built == pc # "main" /\ error # "InsufficientResponseError"
Vertices == UNION {Range(paths[i]) : i \in DOMAIN paths}
RawGraph == create_graph(paths)

(***************************************************************************)
(* C13 as stated: when a polyline of the input has fewer than 2 vertices,  *)
(* construction fails with MalformedGeometryError and no graph is          *)
(* produced, not even from the well-formed polylines.                      *)
(***************************************************************************)
Cex_C13 ==
  (pc # "main"
     /\ (\E i \in DOMAIN paths : Len(paths[i]) < 2)
     /\ (\E i \in DOMAIN paths : Len(paths[i]) >= 2)) =>
     error = "MalformedGeometryError" /\ G = NoGraph

\* two polylines of one segment each, the second starting where the first
\* ends
SharedEndpoint ==
  /\ Len(paths) = 2
  /\ Len(paths[1]) = 2
  /\ Len(paths[2]) = 2
  /\ paths[1][2] = paths[2][1]
  /\ paths[1][1] # paths[2][2]

(***************************************************************************)
(* C14 as stated: the graph has exactly one node per distinct vertex of    *)
(* the polylines; two polylines sharing an endpoint yield one shared node  *)
(* and the node count equals the number of distinct vertices.              *)
(***************************************************************************)
Cex_C14 ==
  (Built /\ SharedEndpoint) =>
     /\ G.nodes = Vertices
     /\ paths[1][2] \in G.nodes

(***************************************************************************)
(* C14, amended: the nodes of the graph are vertices of the polylines,     *)
(* one per node id, all in one connected part of the network; every        *)
(* vertex of that part where ways end, meet or branch is a node, while a   *)
(* vertex that two segments merely pass through is merged away.  Edges     *)
(* come in both directions, and the walking distance between two nodes of  *)
(* the graph is the distance along the polylines, across shared vertices.  *)
(***************************************************************************)
Thm_C14 ==
  Built =>
     /\ G.nodes # {}
     /\ G.nodes \subseteq Vertices
     /\ \A s \in G.nodes :
          /\ G.nodes \subseteq Component(RawGraph, s)
          /\ endpoints(RawGraph) \cap Component(RawGraph, s) \subseteq G.nodes
          /\ \A n \in G.nodes :
               ShortestPathLength(G, s, n) = ShortestPathLength(RawGraph, s, n)
     /\ \A i \in EdgeIdx(G) :
          \E j \in EdgeIdx(G) :
             /\ G.edges[j].u = G.edges[i].v
             /\ G.edges[j].v = G.edges[i].u
             /\ G.edges[j].length = G.edges[i].length

\* the shared endpoint of two polylines merged away, and the two outer
\* vertices joined by one edge as long as both segments
Wit_C14 ==
  /\ Built
  /\ SharedEndpoint
  /\ G.nodes = {paths[1][1], paths[2][2]}
  /\ \E i \in EdgeIdx(G) :
       /\ G.edges[i].u = paths[1][1]
       /\ G.edges[i].v = paths[2][2]
       /\ G.edges[i].length = seg_length(paths[1][1], paths[1][2])
                               + seg_length(paths[2][1], paths[2][2])

\* every edge of g runs between two nodes of g
EdgesReferenceNodes(g) ==
  \A i \in EdgeIdx(g) : g.edges[i].u \in g.nodes /\ g.edges[i].v \in g.nodes

(***************************************************************************)
(* C15: no nearest-node lookup and no service-area computation changes     *)
(* the graph: at every step its node set, its edges, their ids and their   *)
(* lengths stay what they were before the first query, and every edge      *)
(* runs between two nodes of the graph.                                    *)
(***************************************************************************)
Thm_C15 ==
  /\ [][G' = G]_vars
  /\ [](EdgesReferenceNodes(G))

\* two service areas computed from different nodes that share a node, on a
\* graph with nodes outside both
Wit_C15 ==
  /\ pc = "returned"
  /\ Len(calls) = 2
  /\ calls[1][1] # calls[2][1]
  /\ service_areas[calls[1][1]].nodes \cap service_areas[calls[2][1]].nodes # {}
  /\ service_areas[calls[1][1]].nodes # G.nodes

Thm_C17 ==
  /\ []((pc = "main") =>
          (G = NoGraph /\ pois_nodes = <<>> /\ calls = <<>> /\ service_areas = <<>>))
  /\ []((pois_nodes # <<>> \/ calls # <<>>) => Built)
  /\ [](Built => G \in graph_from_ways(paths))
  /\ [][G' # G => (pc = "main" /\ pc' = "batch")]_vars

\* both service areas computed on a constructed graph that has edges
Wit_C17 ==
  /\ pc = "returned"
  /\ Len(calls) = 2
  /\ calls[1][1] # calls[2][1]
  /\ G.edges # <<>>
  /\ Cardinality(G.nodes) < Cardinality(Vertices)

\* the distance at which the search reached a node
ReachedAt(n) == search.dist[n]

\* directed edges of G leaving a reached node towards a node not reached
BoundaryEdges ==
  {i \in EdgeIdx(G) : G.edges[i].u \in subgraph.nodes /\ G.edges[i].v \notin subgraph.nodes}

PartialLength(i) == radius - ReachedAt(G.edges[i].u)

RECURSIVE SumFull(_)
SumFull(E) == IF E = <<>> THEN 0 ELSE Head(E).length + SumFull(Tail(E))

RECURSIVE SumPartial(_)
SumPartial(S) ==
  IF S = {} THEN 0
  ELSE LET i == CHOOSE j \in S : TRUE IN PartialLength(i) + SumPartial(S \ {i})

\* full lengths of the included edges plus partial lengths of the boundary
\* edges
CoveredLength == SumFull(subgraph.edges) + SumPartial(BoundaryEdges)

(***************************************************************************)
(* C18 as stated: the summary returned for a POI reports, as four figures, *)
(* the number of reached nodes, the number of fully included edges, the    *)
(* number of boundary edges, and the covered length (full lengths of the   *)
(* included edges plus partial lengths of the boundary edges).             *)
(***************************************************************************)
Cex_C18 ==
  (pc = "returned" /\ BoundaryEdges # {}) =>
     \E fn, fe, fb, fl \in DOMAIN result :
        /\ Cardinality({fn, fe, fb, fl}) = 4
        /\ result[fn] = Cardinality(subgraph.nodes)
        /\ result[fe] = Len(subgraph.edges)
        /\ result[fb] = Cardinality(BoundaryEdges)
        /\ result[fl] = CoveredLength

\* the nodes reached from at least one POI of the batch
ReachedFromSomePoi ==
  UNION {ego_graph(G, pois_nodes[i], service_radius).nodes : i \in 1..Len(pois_nodes)}

\* the places of the returned dictionary where node n is listed
Listings(n) == {k \in DOMAIN service_areas : n \in service_areas[k].nodes}

(***************************************************************************)
(* C19 as stated: what is returned across the POIs is the union of their   *)
(* reached-node sets with duplicates collapsed: a node reached from        *)
(* several POIs is listed exactly once, every node reached from some POI   *)
(* is listed, and no other node is.                                        *)
(***************************************************************************)
Cex_C19 ==
  pc = "returned" =>
     \A n \in G.nodes :
        /\ n \in ReachedFromSomePoi => Cardinality(Listings(n)) = 1
        /\ n \notin ReachedFromSomePoi => Listings(n) = {}

\* the orders in which the nodes of G form a chain that starts at the
\* source: one positive-length edge each way between neighbours in the
\* order, and no other edge
ChainOrders ==
  {c \in [1..Cardinality(G.nodes) -> G.nodes] :
     /\ Len(c) >= 2
     /\ c[1] = source
     /\ \A i, j \in DOMAIN c : i # j => c[i] # c[j]
     /\ \A k \in 1..(Len(c) - 1) :
          /\ Cardinality({i \in EdgeIdx(G) :
                            G.edges[i].u = c[k] /\ G.edges[i].v = c[k + 1]}) = 1
          /\ Cardinality({i \in EdgeIdx(G) :
                            G.edges[i].u = c[k + 1] /\ G.edges[i].v = c[k]}) = 1
     /\ \A i \in EdgeIdx(G) :
          /\ G.edges[i].length > 0
          /\ \E k \in 1..(Len(c) - 1) :
               {G.edges[i].u, G.edges[i].v} = {c[k], c[k + 1]}}

\* length of the chain from its first node to its k-th
RECURSIVE Cumulative(_, _)
Cumulative(c, k) ==
  IF k <= 1 THEN 0 ELSE Cumulative(c, k - 1) + weight(G, c[k - 1], c[k])

\* the positions of the chain within the budget
PrefixIdx(c) == {k \in DOMAIN c : Cumulative(c, k) <= radius}

(***************************************************************************)
(* C20 as stated: on a chain with positive lengths queried from one end,   *)
(* the reached nodes are the longest prefix within the budget and the      *)
(* edges inside it are fully included; when the prefix is not the whole    *)
(* chain the edge leaving it is in the result as the only boundary edge,   *)
(* and when the budget covers the chain all nodes and edges are included.  *)
(***************************************************************************)
Cex_C20 ==
  pc \in {"isochrone", "returned"} =>
     \A c \in ChainOrders :
        /\ subgraph.nodes = {c[k] : k \in PrefixIdx(c)}
        /\ BothEndsIn(G, subgraph.nodes) \subseteq EdgesOf(subgraph)
        /\ PrefixIdx(c) = DOMAIN c => EdgesOf(subgraph) = EdgesOf(G)
        /\ PrefixIdx(c) # DOMAIN c =>
             \E i \in EdgeIdx(subgraph) :
                /\ subgraph.edges[i].u = c[Cardinality(PrefixIdx(c))]
                /\ subgraph.edges[i].v = c[Cardinality(PrefixIdx(c)) + 1]

\* the part of C20 without the boundary edge, which the code meets
ChainPrefixReached ==
  pc \in {"isochrone", "returned"} =>
     \A c \in ChainOrders :
        /\ subgraph.nodes = {c[k] : k \in PrefixIdx(c)}
        /\ BothEndsIn(G, subgraph.nodes) \subseteq EdgesOf(subgraph)
        /\ PrefixIdx(c) = DOMAIN c => EdgesOf(subgraph) = EdgesOf(G)

\* the nodes finalised so far, in the order of their finalisation
Finalised == search.order

(***************************************************************************)
(* C21: during a search with a budget >= 0 the nodes are finalised in      *)
(* nondecreasing order of distance, the distance of a finalised node is    *)
(* never changed afterwards, and no node is finalised, expanded or even    *)
(* queued at a distance greater than the budget.                           *)
(***************************************************************************)
Thm_C21 ==
  /\ [](radius >= 0 =>
          /\ \A i, j \in DOMAIN Finalised :
               i < j => search.dist[Finalised[i]] <= search.dist[Finalised[j]]
          /\ \A n \in DOMAIN search.dist : search.dist[n] <= radius
          /\ \A t \in search.fringe : t[1] <= radius
          /\ DOMAIN search.dist = Range(Finalised))
  /\ [][\A n \in DOMAIN search.dist :
          n \in DOMAIN search'.dist /\ search'.dist[n] = search.dist[n]]_vars

\* a finished search that finalised two nodes, the second at exactly the
\* budget, and cut off a neighbour of it beyond the budget
Wit_C21 ==
  /\ pc = "done"
  /\ radius > 0
  /\ Len(Finalised) = 2
  /\ search.dist[Finalised[1]] < search.dist[Finalised[2]]
  /\ search.dist[Finalised[2]] = radius
  /\ \E i \in EdgeIdx(G) :
       G.edges[i].u = Finalised[2] /\ G.edges[i].v \notin DOMAIN search.dist

\* a node queued twice by a search: once at a distance that was then improved
QueuedTwice(n) == Cardinality({t \in search.fringe : t[3] = n}) >= 2

(***************************************************************************)
(* C22: every search ends, on graphs with cycles, parallel edges and       *)
(* zero-length edges and for every budget: the queue empties and the       *)
(* result is returned, and no node is finalised twice.                     *)
(***************************************************************************)
Thm_C22 ==
  /\ <>(pc = "done")
  /\ [](\A i, j \in DOMAIN Finalised : i # j => Finalised[i] # Finalised[j])
  /\ [](pc = "done" => search.fringe = {})

\* a finished search on a round trip with a zero-length edge, in which a
\* node was queued a second time at a shorter distance
Wit_C22 ==
  /\ pc = "done"
  /\ radius > 0
  /\ Len(Finalised) = 3
  /\ search.c > 3
  /\ \E i \in EdgeIdx(G) : G.edges[i].length = 0

Parallel(g, u, v) == {i \in EdgeIdx(g) : g.edges[i].u = u /\ g.edges[i].v = v}

AccessRun == pc \in {"access", "graph", "isochrone"} \/ result # NoResult

(***************************************************************************)
(* C25: the two call sites use different budgets for 15 minutes of         *)
(* walking: accessibility_analysis asks for 5 km/h x 0.25 h x 1000 =       *)
(* 1250 m, network_analysis asks for 1200 m for every POI.                 *)
(***************************************************************************)
Thm_C25 ==
  /\ max_distance_m = (walking_speed * 25 * 1000) \div 100
  /\ \A i \in DOMAIN calls :
       IF AccessRun THEN calls[i][2] = 1250 ELSE calls[i][2] = 1200
  /\ pc = "isochrone" => (radius = 1250 /\ Len(calls) = 1)

\* the batch run has computed the areas of two different nodes
Wit_C25 ==
  /\ ~AccessRun
  /\ pc = "returned"
  /\ Len(calls) = 2
  /\ calls[1][1] # calls[2][1]
  /\ calls[1][2] = calls[2][2]

(***************************************************************************)
(* C26 as stated: an edge is never credited with more than the part of it  *)
(* that lies within the budget: an edge between two reached nodes u and v  *)
(* counts in full only when the budget left at u plus the budget left at   *)
(* v covers its length.                                                    *)
(***************************************************************************)
Cex_C26 ==
  (Answered /\ radius >= 0) =>
     \A i \in EdgeIdx(subgraph) :
        subgraph.edges[i].length
          <= (radius - search.dist[subgraph.edges[i].u])
               + (radius - search.dist[subgraph.edges[i].v])

(***************************************************************************)
(* C27: the returned service_areas has one entry per distinct nearest      *)
(* node, keyed by the node: its keys are the nearest nodes of the POIs;    *)
(* POIs with the same nearest node share one entry, and the mapping then   *)
(* has fewer entries than there are POIs.                                  *)
(***************************************************************************)
Thm_C27 ==
  pc = "returned" =>
     /\ DOMAIN service_areas = Range(pois_nodes)
     /\ \A i \in PoiIdx :
          service_areas[pois_nodes[i]] = ego_graph(G, pois_nodes[i], service_radius)
     /\ Cardinality(DOMAIN service_areas) <= Len(points_of_interest)
     /\ (\E i, j \in PoiIdx : i # j /\ pois_nodes[i] = pois_nodes[j])
          <=> Cardinality(DOMAIN service_areas) < Len(points_of_interest)

\* two POIs at different places with the same nearest node, and one entry
Wit_C27 ==
  /\ pc = "returned"
  /\ Len(points_of_interest) = 2
  /\ points_of_interest[1] # points_of_interest[2]
  /\ pois_nodes[1] = pois_nodes[2]
  /\ Cardinality(DOMAIN service_areas) = 1

(***************************************************************************)
(* C28 as stated: the point of a nearest-node lookup is given in the       *)
(* coordinate system of the graph searched, so the node found for the      *)
(* centre point is a node truly nearest to it.                             *)
(***************************************************************************)
Cex_C28 ==
  pc \in {"isochrone", "returned"} =>
     source \in Nearest(G, center_point[1], center_point[2])

\* the files the statements of a step write, and those written by its
\* statements up to statement k
Outputs(s) == {step_body(s)[k].writes : k \in DOMAIN step_body(s)} \ {""}

OutputsUpTo(s, k) ==
  {step_body(s)[j].writes : j \in {i \in DOMAIN step_body(s) : i <= k}} \ {""}

ProcessSteps == Range(steps) \ {"setup_directories"}

\* the step is left at a statement of its body, that is, by an exception
LeftByException == InProcessStep /\ stmt \in DOMAIN step_body(pc) /\ pc' # pc

(***************************************************************************)
(* C29 as stated: main runs its five steps once each, in order, and        *)
(* always reaches its completion message.                                  *)
(***************************************************************************)
Cex_C29 == <>(pc = "completed" /\ calls = steps)

(***************************************************************************)
(* C29, amended: the steps are called in the fixed order, each at most     *)
(* once.  An exception inside a process_* step is caught in that step: the *)
(* step prints its error line, writes none of the files of its later       *)
(* statements, now or later, and main goes on with the next step; once     *)
(* setup_directories has returned, main reaches its completion message     *)
(* with all five steps called.  Only an exception of setup_directories,    *)
(* which is in no try block, ends main early, before any file is written.  *)
(***************************************************************************)
Thm_C29 ==
  /\ [](/\ Len(calls) <= Len(steps)
        /\ \A i \in DOMAIN calls : calls[i] = steps[i]
        /\ pc = "completed" =>
             /\ calls = steps
             /\ printed[Len(printed)] = completion_message
        /\ pc = "crashed" =>
             /\ calls = <<"setup_directories">>
             /\ error = "OSError"
             /\ processed = {}
        /\ InProcessStep =>
             /\ processed \cap Outputs(pc) \subseteq OutputsUpTo(pc, stmt - 1)
             /\ \A i \in DOMAIN steps :
                  i > step_index(pc) => processed \cap Outputs(steps[i]) = {})
  /\ [][/\ \A s \in ProcessSteps :
             pc # s => processed' \cap Outputs(s) = processed \cap Outputs(s)
        /\ LeftByException =>
             /\ processed' \cap Outputs(pc) \subseteq OutputsUpTo(pc, stmt)
             /\ OutputsUpTo(pc, stmt - 1) \cap processed \subseteq processed'
             /\ printed' = Append(printed, error_message(pc))
             /\ pc' = after_step(pc)]_vars
  /\ [](InProcessStep => <>(pc = "completed"))

\* main has completed although the GeoJSON step failed between its two
\* outputs: the first file is there, the second is not, the last step ran
Wit_C29 ==
  /\ pc = "completed"
  /\ \E i \in DOMAIN printed : printed[i] = error_message("process_geojson_files")
  /\ "besiktas_bike_paths.geojson" \in processed
  /\ "besiktas_micromobility.geojson" \notin processed
  /\ "besiktas_osm_parks_paths.geojson" \in processed
  /\ calls = steps

====
